---- MODULE Spec2Model ----
(***************************************************************************)
(* The job pipeline of ai-content-publisher: the two BullMQ queues of      *)
(* backend/src/jobs/queue.ts (content-generation, publishing), the workers *)
(* that process them, the two task functions with their remote calls       *)
(* (llm.service.ts, wordpress.service.ts) and the routes that enqueue and  *)
(* query jobs (routes/publish.ts and routes/content.ts, kept here as       *)
(* src/unnamed/part_000).                                                  *)
(*                                                                         *)
(* Queue and Worker are BullMQ's: the model gives them the behaviour the   *)
(* options passed in queue.ts select (wait list consumed first-in          *)
(* first-out, one atomic move of a job from wait to active per free slot,  *)
(* `concurrency` slots per worker, the limiter's counter that expires      *)
(* `duration` ms after the first start it counted, and as many attempts as *)
(* the options of Queue.add ask for, which is one when none are given).    *)
(***************************************************************************)
EXTENDS Integers, Sequences, FiniteSets, TLC

(***************************************************************************)
(* Bounds of the model.                                                    *)
(***************************************************************************)
MaxContentJobs == 3      \* jobs ever added to content-generation (Spec)
MaxPublishJobs == 2      \* jobs ever added to publishing (Spec)
TickMs == 30000          \* milliseconds the clock advances per tick
LimiterJobs == 12        \* jobs ever added to content-generation (SpecLimiter)
LimiterTicks == 2        \* clock ticks (SpecLimiter)
PublishOnlyJobs == 3     \* jobs ever added to publishing (SpecPublish)
GenerateOnlyJobs == 3    \* jobs ever added to content-generation (SpecGenerate)
SubmitJobs == 2          \* jobs ever added to content-generation (SpecSubmit)
LiveJobs == 3            \* jobs ever added to the two queues together (SpecLive)
QueryJobs == 3           \* jobs ever added to the two queues together (SpecQuery)
ThrottleJobs == 11       \* jobs ever added to content-generation (SpecThrottle)
ThrottleTicks == 0       \* clock ticks while the limiter holds no job back (SpecThrottle)

(***************************************************************************)
(* Program constants.                                                      *)
(***************************************************************************)
ContentConcurrency == 2
PublishConcurrency == 1
LimiterMax == 10
LimiterDuration == 60000
DefaultAttempts == 1     \* Queue.add is called without an `attempts` option

CQ == "content-generation"
PQ == "publishing"
Queues == {CQ, PQ}

\* variant: one slot more than configured
ConcurrencyOneMore(q) == IF q = CQ THEN ContentConcurrency + 1 ELSE PublishConcurrency + 1
\* the `concurrency` option of the queue's worker
Concurrency(q) == IF q = CQ THEN ContentConcurrency ELSE PublishConcurrency

\* the processing slots of the two workers started by startWorkers
Slots == {s \in Queues \X (1..(ContentConcurrency + PublishConcurrency)) :
            s[2] <= Concurrency(s[1])}

(***************************************************************************)
(* JavaScript values: null/undefined, and the objects a JSON text parses   *)
(* to.  An object is its property map; a missing property reads undefined. *)
(***************************************************************************)
Null == [type |-> "null"]
Undefined == [type |-> "undefined"]
NoProps == [k \in {} |-> Undefined]
JsObject(props) == [type |-> "object", props |-> props]
JsArray(items) == [type |-> "array", items |-> items]
JsString(s) == [type |-> "string", str |-> s]
JsNumber(n) == [type |-> "number", num |-> n, nan |-> FALSE]
NaN == [type |-> "number", num |-> 0, nan |-> TRUE]
\* a string put together from pieces, as an error message is
JsText(parts) == [type |-> "text", parts |-> parts]

Get(v, key) == IF v.type = "object" /\ key \in DOMAIN v.props THEN v.props[key] ELSE Undefined

\* JavaScript truthiness of the values the model uses
Truthy(v) ==
    CASE v.type \in {"null", "undefined"} -> FALSE
      [] v.type = "string" -> v.str # ""
      [] v.type = "number" -> v.num # 0 /\ ~v.nan
      [] OTHER -> TRUE

\* a || b
OrElse(a, b) == IF Truthy(a) THEN a ELSE b

\* whether the text has the value among its pieces
Mentions(text, v) == \E i \in DOMAIN text.parts : text.parts[i] = v

VARIABLES
    jobs,        \* jobs[q]: the job hashes of queue q, indexed by job id
    wait,        \* wait[q]: the ids waiting, next to be processed first
    active,      \* active[q]: the ids being processed
    completed,   \* completed[q]: the ids finished with a return value
    failed,      \* failed[q]: the ids finished with an error
    slot,        \* slot[<<q,i>>]: what the i-th processing slot of q's worker runs
    limiter,     \* the content worker's rate-limit key: counter and expiry
    clock,       \* milliseconds since start
    posts,       \* the posts of the WordPress site
    wpCalls,     \* history: the calls made to the WordPress REST API
    starts,      \* history: the times the content task function was started at,
                 \*   those of the last LimiterDuration ms
    order,       \* history: order[q] lists the jobs of q in the order they were
                 \*   taken by a slot
    response     \* the last HTTP response a route sent

vars == <<jobs, wait, active, completed, failed, slot, limiter, clock,
          posts, wpCalls, starts, order, response>>

IdleSlot == [job |-> 0, pc |-> "idle", local |-> Null]
NoResponse == [status |-> 0]

Init ==
    /\ jobs = [q \in Queues |-> <<>>]
    /\ wait = [q \in Queues |-> <<>>]
    /\ active = [q \in Queues |-> {}]
    /\ completed = [q \in Queues |-> {}]
    /\ failed = [q \in Queues |-> {}]
    /\ slot = [s \in Slots |-> IdleSlot]
    /\ limiter = [count |-> 0, expires |-> 0]
    /\ clock = 0
    /\ posts = <<>>
    /\ wpCalls = <<>>
    /\ starts = <<>>
    /\ order = [q \in Queues |-> <<>>]
    /\ response = NoResponse

(***************************************************************************)
(* Job.getState(): the list the id is in.                                  *)
(***************************************************************************)
InSeq(x, s) == \E i \in DOMAIN s : s[i] = x

getState(q, id) ==
    CASE id \in completed[q] -> "completed"
      [] id \in failed[q] -> "failed"
      [] id \in active[q] -> "active"
      [] InSeq(id, wait[q]) -> "waiting"
      [] OTHER -> "unknown"

JobIds(q) == DOMAIN jobs[q]

(***************************************************************************)
(* Queue.add(name, data): a new job hash under the next id of the queue's  *)
(* id counter, pushed on the wait list.                                    *)
(***************************************************************************)
NewJob(data) ==
    [data |-> data, attempts |-> DefaultAttempts, attemptsMade |-> 0,
     returnvalue |-> Null, failedReason |-> Null]

\* variant: the id counter is not advanced past the last job
QueueAddSameId(q, data) ==
    LET id == IF jobs[q] = <<>> THEN 1 ELSE Len(jobs[q])
    IN  /\ jobs' = [jobs EXCEPT ![q] = IF id > Len(@) THEN Append(@, NewJob(data))
                                       ELSE [@ EXCEPT ![id] = NewJob(data)]]
        /\ wait' = [wait EXCEPT ![q] = Append(@, id)]

\* variant: the job is added twice
QueueAddTwice(q, data) ==
    /\ jobs' = [jobs EXCEPT ![q] = Append(Append(@, NewJob(data)), NewJob(data))]
    /\ wait' = [wait EXCEPT ![q] = Append(Append(@, Len(jobs[q]) + 1), Len(jobs[q]) + 2)]

QueueAdd(q, data) ==
    /\ jobs' = [jobs EXCEPT ![q] = Append(@, NewJob(data))]
    /\ wait' = [wait EXCEPT ![q] = Append(@, Len(jobs[q]) + 1)]

(***************************************************************************)
(* POST /api/publish                                                       *)
(***************************************************************************)
PublishData(body) ==
    [content |-> body.content, seo |-> body.seo,
     status |-> OrElse(body.status, JsString("draft")),
     scheduleDate |-> body.scheduleDate]

PostPublish(body, cap) ==
    /\ Len(jobs[PQ]) < cap
    /\ IF ~Truthy(body.content) \/ ~Truthy(body.seo)
       THEN /\ response' = [status |-> 400, route |-> "publish"]
            /\ UNCHANGED <<jobs, wait>>
       ELSE /\ QueueAdd(PQ, PublishData(body))
            /\ response' = [status |-> 200, route |-> "publish",
                            jobId |-> Len(jobs[PQ]) + 1]
    /\ UNCHANGED <<active, completed, failed, slot, limiter, clock, posts,
                   wpCalls, starts, order>>

(***************************************************************************)
(* POST /api/content/generate                                              *)
(***************************************************************************)
\* parseInt of the values a wordCount takes here
ParseInt(v) ==
    CASE v.type = "number" /\ ~v.nan -> v
      [] v.type = "string" /\ v.str = "1500" -> JsNumber(1500)
      [] OTHER -> NaN

\* uuidv4(): a fresh identifier, named after the job it is made for
ContentId(n) == JsText(<<JsString("uuid-"), JsNumber(n)>>)

GenerateData(body, n) ==
    [contentId |-> ContentId(n), topic |-> body.topic, keywords |-> body.keywords,
     wordCount |-> ParseInt(body.wordCount)]

PostGenerate(body, cap) ==
    /\ Len(jobs[CQ]) < cap
    /\ IF ~Truthy(body.topic) \/ ~Truthy(body.keywords) \/ ~Truthy(body.wordCount)
       THEN /\ response' = [status |-> 400, route |-> "content"]
            /\ UNCHANGED <<jobs, wait>>
       ELSE /\ QueueAdd(CQ, GenerateData(body, Len(jobs[CQ]) + 1))
            /\ response' = [status |-> 200, route |-> "content",
                            jobId |-> Len(jobs[CQ]) + 1]
    /\ UNCHANGED <<active, completed, failed, slot, limiter, clock, posts,
                   wpCalls, starts, order>>

(***************************************************************************)
(* GET /api/content/job/:jobId and GET /api/publish/job/:jobId             *)
(***************************************************************************)
JobRoute(q) == IF q = CQ THEN "content-job" ELSE "publish-job"

\* job.progress: the task functions never call updateProgress
Progress == JsNumber(0)

\* the body the route answers with for a job it found
JobResponse(q, id) ==
    IF q = CQ
    THEN [status |-> 200, route |-> JobRoute(q), jobId |-> id, state |-> getState(q, id),
          progress |-> Progress, result |-> jobs[q][id].returnvalue,
          failedReason |-> jobs[q][id].failedReason]
    ELSE [status |-> 200, route |-> JobRoute(q), jobId |-> id, state |-> getState(q, id),
          result |-> jobs[q][id].returnvalue,
          failedReason |-> jobs[q][id].failedReason]

\* the answer for a job the queue does not have; asked is the :jobId of the
\* request it answers
JobNotFound(q, id) ==
    [status |-> 404, route |-> JobRoute(q), error |-> "Job not found", asked |-> id]

\* variant: a job the queue does not have is looked up on the other queue
GetJobOnAnyQueue(q, id) ==
    /\ response' =
          IF id \in JobIds(q) THEN JobResponse(q, id)
          ELSE IF \E o \in Queues : id \in JobIds(o)
               THEN [status |-> 200, route |-> JobRoute(q), jobId |-> id,
                     state |-> getState(CHOOSE o \in Queues : id \in JobIds(o), id)]
               ELSE JobNotFound(q, id)
    /\ UNCHANGED <<jobs, wait, active, completed, failed, slot, limiter, clock, posts,
                   wpCalls, starts, order>>

\* variant: the route removes a finished job once it has reported it
GetJobRemovesFinished(q, id) ==
    /\ response' = IF id \in JobIds(q) /\ getState(q, id) # "unknown"
                   THEN JobResponse(q, id) ELSE JobNotFound(q, id)
    /\ completed' = [completed EXCEPT ![q] = @ \ {id}]
    /\ failed' = [failed EXCEPT ![q] = @ \ {id}]
    /\ UNCHANGED <<jobs, wait, active, slot, limiter, clock, posts,
                   wpCalls, starts, order>>

\* queue.getJob(jobId), job.getState(), and the answer
GetJob(q, id) ==
    /\ response' = IF id \in JobIds(q) THEN JobResponse(q, id) ELSE JobNotFound(q, id)
    /\ UNCHANGED <<jobs, wait, active, completed, failed, slot, limiter, clock, posts,
                   wpCalls, starts, order>>

(***************************************************************************)
(* The worker's side of BullMQ: taking the next job, finishing a job.      *)
(***************************************************************************)
\* variant: a limiter that never holds a job back
RateLimitedNever(q) == FALSE
\* the content worker's limiter: `max` starts were counted and the key lives
RateLimited(q) ==
    q = CQ /\ limiter.count >= LimiterMax /\ clock < limiter.expires

\* counting one more start; the first start counted sets the key's expiry
LimiterCount(l) ==
    IF l.count = 0
    THEN [count |-> 1, expires |-> clock + LimiterDuration]
    ELSE [l EXCEPT !.count = @ + 1]

\* variants: the job taken stays on the wait list; the last job is taken
TakeNextKeep(w) == [id |-> Head(w), rest |-> w]
TakeNextLast(w) == [id |-> w[Len(w)], rest |-> SubSeq(w, 1, Len(w) - 1)]
\* the job a free slot takes off the wait list, and what is left waiting
TakeNext(w) == [id |-> Head(w), rest |-> Tail(w)]

\* variant: every worker starts a job with the publishing task function
FirstStepOfPublishing(q) == "createPost"
\* the first call the task function of the queue's worker awaits
FirstStep(q) == IF q = CQ THEN "generateBlogPost" ELSE "createPost"

\* the calls the task function of the queue's worker awaits
TaskSteps(q) ==
    IF q = CQ THEN {"generateBlogPost", "generateSEOMetadata", "generateFAQSchema"}
    ELSE {"createPost", "schedulePost"}

\* the slot that takes the next job: the first free one of the queue's worker
FreeSlot(s) ==
    /\ slot[s].job = 0
    /\ \A t \in Slots : t[1] = s[1] /\ t[2] < s[2] => slot[t].job # 0

RateLimitExceeded == JsText(<<JsString("Rate limit exceeded")>>)

\* variant: a job that is next while the limiter holds is failed instead of
\* being left on the wait list
MoveToActiveFailsThrottled(s) ==
    LET q == s[1]
        id == TakeNext(wait[q]).id
    IN  /\ FreeSlot(s)
        /\ wait[q] # <<>>
        /\ wait' = [wait EXCEPT ![q] = TakeNext(@).rest]
        /\ IF RateLimited(q)
           THEN /\ failed' = [failed EXCEPT ![q] = @ \cup {id}]
                /\ jobs' = [jobs EXCEPT ![q][id].failedReason = RateLimitExceeded]
                /\ UNCHANGED <<active, slot, limiter, starts, order>>
           ELSE /\ active' = [active EXCEPT ![q] = @ \cup {id}]
                /\ jobs' = [jobs EXCEPT ![q][id].attemptsMade = @ + 1]
                /\ slot' = [slot EXCEPT ![s] = [job |-> id, pc |-> FirstStep(q),
                                                local |-> Null]]
                /\ limiter' = IF q = CQ THEN LimiterCount(limiter) ELSE limiter
                /\ starts' = IF q = CQ THEN Append(starts, clock) ELSE starts
                /\ order' = [order EXCEPT ![q] = Append(@, id)]
                /\ UNCHANGED failed
        /\ UNCHANGED <<completed, clock, posts, wpCalls, response>>

\* Worker.getNextJob: a free slot moves the next waiting job to active and
\* calls the task function with it
MoveToActive(s) ==
    LET q == s[1]
        id == TakeNext(wait[q]).id
    IN  /\ FreeSlot(s)
        /\ wait[q] # <<>>
        /\ ~RateLimited(q)
        /\ wait' = [wait EXCEPT ![q] = TakeNext(@).rest]
        /\ active' = [active EXCEPT ![q] = @ \cup {id}]
        /\ jobs' = [jobs EXCEPT ![q][id].attemptsMade = @ + 1]
        /\ slot' = [slot EXCEPT ![s] = [job |-> id, pc |-> FirstStep(q), local |-> Null]]
        /\ limiter' = IF q = CQ THEN LimiterCount(limiter) ELSE limiter
        /\ starts' = IF q = CQ THEN Append(starts, clock) ELSE starts
        /\ order' = [order EXCEPT ![q] = Append(@, id)]
        /\ UNCHANGED <<completed, failed, clock, posts, wpCalls, response>>

\* variant: the return value is stored but the job is not moved off active
MoveToCompletedStaysActive(s, value) ==
    LET q == s[1]
        id == slot[s].job
    IN  /\ jobs' = [jobs EXCEPT ![q][id].returnvalue = value]
        /\ slot' = [slot EXCEPT ![s] = IdleSlot]
        /\ UNCHANGED <<wait, active, completed, failed>>

\* Job.moveToCompleted(returnvalue), and the slot is free again
MoveToCompleted(s, value) ==
    LET q == s[1]
        id == slot[s].job
    IN  /\ active' = [active EXCEPT ![q] = @ \ {id}]
        /\ completed' = [completed EXCEPT ![q] = @ \cup {id}]
        /\ jobs' = [jobs EXCEPT ![q][id].returnvalue = value]
        /\ slot' = [slot EXCEPT ![s] = IdleSlot]
        /\ UNCHANGED <<wait, failed>>

\* variant: a job that threw is always run again
RetryAlways(job) == TRUE
\* variant: a job that threw in its first attempt is run a second time
RetryOnce(job) == job.attemptsMade < DefaultAttempts + 1
\* whether a job that threw is run again
ShouldRetry(job) == job.attemptsMade < job.attempts

\* variant: a job that threw keeps what its task function had produced so far
MoveToFailedKeepsPartial(s, message) ==
    LET q == s[1]
        id == slot[s].job
    IN  /\ active' = [active EXCEPT ![q] = @ \ {id}]
        /\ jobs' = [jobs EXCEPT ![q][id].failedReason = message,
                                ![q][id].returnvalue = slot[s].local]
        /\ slot' = [slot EXCEPT ![s] = IdleSlot]
        /\ failed' = [failed EXCEPT ![q] = @ \cup {id}]
        /\ UNCHANGED <<wait, completed>>

\* variant: a failure counts as one more attempt
MoveToFailedCounts(s, message) ==
    LET q == s[1]
        id == slot[s].job
    IN  /\ active' = [active EXCEPT ![q] = @ \ {id}]
        /\ jobs' = [jobs EXCEPT ![q][id].failedReason = message,
                                ![q][id].attemptsMade = @ + 1]
        /\ slot' = [slot EXCEPT ![s] = IdleSlot]
        /\ failed' = [failed EXCEPT ![q] = @ \cup {id}]
        /\ UNCHANGED <<wait, completed>>

\* Job.moveToFailed(err): back to the wait list while attempts are left,
\* to the failed set otherwise; failedReason is err.message
MoveToFailed(s, message) ==
    LET q == s[1]
        id == slot[s].job
    IN  /\ active' = [active EXCEPT ![q] = @ \ {id}]
        /\ jobs' = [jobs EXCEPT ![q][id].failedReason = message]
        /\ slot' = [slot EXCEPT ![s] = IdleSlot]
        /\ IF ShouldRetry(jobs[q][id])
           THEN /\ wait' = [wait EXCEPT ![q] = <<id>> \o @]
                /\ UNCHANGED failed
           ELSE /\ failed' = [failed EXCEPT ![q] = @ \cup {id}]
                /\ UNCHANGED wait
        /\ UNCHANGED completed

\* time passes; the limiter's key expires `duration` ms after it was set
Tick(cap) ==
    /\ clock < cap * TickMs
    /\ clock' = clock + TickMs
    /\ limiter' = IF limiter.count > 0 /\ clock' >= limiter.expires
                  THEN [count |-> 0, expires |-> 0]
                  ELSE limiter
    /\ starts' = SelectSeq(starts, LAMBDA at : at + LimiterDuration > clock')
    /\ UNCHANGED <<jobs, wait, active, completed, failed, slot, posts, wpCalls,
                   order, response>>

(***************************************************************************)
(* JSON.parse of the texts the text-generation service answers with.       *)
(***************************************************************************)
SeoJson == "{\"title\":\"AI in Healthcare\",\"description\":\"D\",\"tags\":[\"ai\"]}"
FaqJson == "{\"faqs\":[{\"question\":\"Q\",\"answer\":\"A\"}]}"
FaqArrayJson == "[{\"question\":\"Q\",\"answer\":\"A\"}]"
TruncatedJson == "{\"title\":\"AI in Hea"
FaqNoAnswerJson == "{\"faqs\":[{\"question\":\"Q\",\"answer\":\"\"}]}"

Faq(q, a) == JsObject([question |-> JsString(q), answer |-> JsString(a)])

SyntaxError == JsText(<<JsString("Unexpected end of JSON input")>>)
TypeErrorNull == JsText(<<JsString("Cannot read properties of null (reading 'faqs')")>>)

JSONParse(text) ==
    CASE text = "{}" -> [ok |-> TRUE, value |-> JsObject(NoProps)]
      [] text = "{\"faqs\": []}" ->
            [ok |-> TRUE, value |-> JsObject([faqs |-> JsArray(<<>>)])]
      [] text = SeoJson ->
            [ok |-> TRUE,
             value |-> JsObject([title |-> JsString("AI in Healthcare"),
                                 description |-> JsString("D"),
                                 tags |-> JsArray(<<JsString("ai")>>)])]
      [] text = FaqJson ->
            [ok |-> TRUE, value |-> JsObject([faqs |-> JsArray(<<Faq("Q", "A")>>)])]
      [] text = FaqArrayJson ->
            [ok |-> TRUE, value |-> JsArray(<<Faq("Q", "A")>>)]
      [] text = FaqNoAnswerJson ->
            [ok |-> TRUE, value |-> JsObject([faqs |-> JsArray(<<Faq("Q", "")>>)])]
      [] text = "null" -> [ok |-> TRUE, value |-> Null]
      [] OTHER -> [ok |-> FALSE, message |-> SyntaxError]

(***************************************************************************)
(* The task function of the content-generation worker, one action per      *)
(* remote call it awaits.                                                  *)
(***************************************************************************)
Running(s, pc) == slot[s].job # 0 /\ slot[s].pc = pc

JobOf(s) == jobs[s[1]][slot[s].job]

UnchangedByContentTask ==
    UNCHANGED <<limiter, clock, posts, wpCalls, starts, order, response>>

TypeErrorJoin == JsText(<<JsString("keywords.join is not a function")>>)

\* llmService.generateBlogPost throws while it builds the prompt, before any
\* request is made: keywords has no join method
GenerateBlogPostThrows(s) ==
    /\ s[1] = CQ
    /\ Running(s, "generateBlogPost")
    /\ JobOf(s).data.keywords.type # "array"
    /\ MoveToFailed(s, TypeErrorJoin)
    /\ UnchangedByContentTask

\* llmService.generateBlogPost answers with message.content
GenerateBlogPostReturns(s, content) ==
    /\ s[1] = CQ
    /\ Running(s, "generateBlogPost")
    /\ JobOf(s).data.keywords.type = "array"
    /\ slot' = [slot EXCEPT ![s].pc = "generateSEOMetadata",
                            ![s].local = [content |-> OrElse(content, JsString(""))]]
    /\ UNCHANGED <<jobs, wait, active, completed, failed>>
    /\ UnchangedByContentTask

\* what generateSEOMetadata makes of message.content
SeoFallbackText(content) == OrElse(content, JsString("{}")).str

\* variant: the answer of the SEO call is kept in the variable holding the draft
GenerateSEOMetadataOverwritesDraft(s, content) ==
    LET parsed == JSONParse(SeoFallbackText(content))
    IN  /\ s[1] = CQ
        /\ Running(s, "generateSEOMetadata")
        /\ IF parsed.ok
           THEN /\ slot' = [slot EXCEPT ![s].pc = "generateFAQSchema",
                                        ![s].local = [content |-> OrElse(content, JsString("{}")),
                                                      seo |-> parsed.value]]
                /\ UNCHANGED <<jobs, wait, active, completed, failed>>
           ELSE MoveToFailed(s, parsed.message)
        /\ UnchangedByContentTask

\* llmService.generateSEOMetadata answers with message.content
GenerateSEOMetadataReturns(s, content) ==
    LET parsed == JSONParse(SeoFallbackText(content))
    IN  /\ s[1] = CQ
        /\ Running(s, "generateSEOMetadata")
        /\ IF parsed.ok
           THEN /\ slot' = [slot EXCEPT ![s].pc = "generateFAQSchema",
                                        ![s].local = [content |-> slot[s].local.content,
                                                      seo |-> parsed.value]]
                /\ UNCHANGED <<jobs, wait, active, completed, failed>>
           ELSE MoveToFailed(s, parsed.message)
        /\ UnchangedByContentTask

\* the value the task function returns
GenerationResult(s, faqs) ==
    [contentId |-> JobOf(s).data.contentId, content |-> slot[s].local.content,
     seo |-> slot[s].local.seo, faqs |-> faqs, topic |-> JobOf(s).data.topic]

\* llmService.generateFAQSchema answers with message.content
GenerateFAQSchemaReturns(s, content) ==
    LET parsed == JSONParse(OrElse(content, JsString("{\"faqs\": []}")).str)
    IN  /\ s[1] = CQ
        /\ Running(s, "generateFAQSchema")
        /\ IF ~parsed.ok
           THEN MoveToFailed(s, parsed.message)
           ELSE IF parsed.value.type = "null"
           THEN MoveToFailed(s, TypeErrorNull)
           ELSE MoveToCompleted(s, GenerationResult(s,
                    OrElse(Get(parsed.value, "faqs"), JsArray(<<>>))))
        /\ UnchangedByContentTask

\* the call to the text-generation service the task awaits rejects
LLMCallFails(s, message) ==
    /\ s[1] = CQ
    /\ slot[s].job # 0
    /\ MoveToFailed(s, message)
    /\ UnchangedByContentTask

\* the argument of the call to the text-generation service the slot awaits:
\* the job's data for the draft, the draft for the SEO metadata and the FAQs
LLMCallArgument(s) ==
    IF slot[s].pc = "generateBlogPost"
    THEN [topic |-> JobOf(s).data.topic, keywords |-> JobOf(s).data.keywords,
          wordCount |-> JobOf(s).data.wordCount]
    ELSE slot[s].local.content

(***************************************************************************)
(* The task function of the publishing worker.                             *)
(***************************************************************************)
Returned == [ok |-> TRUE]
Rejected(message) == [ok |-> FALSE, message |-> message]
WpCall(op, s, arg, outcome) ==
    [op |-> op, job |-> slot[s].job, arg |-> arg, outcome |-> outcome]

\* the post WordPress answers createPost with
CreatedPost(n) ==
    [id |-> JsNumber(n), link |-> JsText(<<JsString("https://site/?p="), JsNumber(n)>>)]

PublishResult(post) ==
    [wordpressId |-> post.id, wordpressUrl |-> post.link,
     publishedAt |-> JsText(<<JsString("iso:"), JsNumber(clock)>>)]

\* the status the task function sends to createPost
CreateStatus(data) == OrElse(data.status, JsString("draft"))

\* variant: the post of a job without scheduleDate is scheduled too, for the
\* time of the call
CreatePostReturnsSchedulesNow(s) ==
    LET data == JobOf(s).data
        post == CreatedPost(Len(posts) + 1)
    IN  /\ s[1] = PQ
        /\ Running(s, "createPost")
        /\ IF Truthy(data.scheduleDate)
           THEN /\ posts' = Append(posts, [title |-> Get(data.seo, "title"),
                                           status |-> CreateStatus(data),
                                           date |-> Undefined, job |-> slot[s].job])
                /\ wpCalls' = Append(wpCalls, WpCall("createPost", s, CreateStatus(data),
                                                     Returned))
                /\ slot' = [slot EXCEPT ![s].pc = "schedulePost", ![s].local = post]
                /\ UNCHANGED <<jobs, wait, active, completed, failed>>
           ELSE /\ posts' = Append(posts, [title |-> Get(data.seo, "title"),
                                           status |-> JsString("future"),
                                           date |-> Undefined, job |-> slot[s].job])
                /\ wpCalls' = Append(Append(wpCalls,
                                  WpCall("createPost", s, CreateStatus(data), Returned)),
                                  WpCall("schedulePost", s, post.id, Returned))
                /\ MoveToCompleted(s, PublishResult(post))
        /\ UNCHANGED <<limiter, clock, starts, order, response>>

\* wordpressService.createPost returns the created post
CreatePostReturns(s) ==
    LET data == JobOf(s).data
        post == CreatedPost(Len(posts) + 1)
    IN  /\ s[1] = PQ
        /\ Running(s, "createPost")
        /\ posts' = Append(posts, [title |-> Get(data.seo, "title"),
                                   status |-> CreateStatus(data),
                                   date |-> Undefined, job |-> slot[s].job])
        /\ wpCalls' = Append(wpCalls, WpCall("createPost", s, CreateStatus(data), Returned))
        /\ IF Truthy(data.scheduleDate)
           THEN /\ slot' = [slot EXCEPT ![s].pc = "schedulePost", ![s].local = post]
                /\ UNCHANGED <<jobs, wait, active, completed, failed>>
           ELSE MoveToCompleted(s, PublishResult(post))
        /\ UNCHANGED <<limiter, clock, starts, order, response>>

\* wordpressService.createPost rejects
CreatePostFails(s, message) ==
    /\ s[1] = PQ
    /\ Running(s, "createPost")
    /\ wpCalls' = Append(wpCalls, WpCall("createPost", s, CreateStatus(JobOf(s).data),
                                         Rejected(message)))
    /\ MoveToFailed(s, message)
    /\ UNCHANGED <<limiter, clock, posts, starts, order, response>>

\* new Date(scheduleDate) of the values a scheduleDate takes here: a date
\* with its ISO form, or an invalid date
NewDate(v) ==
    IF v = JsString("2024-12-25T10:00:00Z")
    THEN [valid |-> TRUE, iso |-> JsString("2024-12-25T10:00:00.000Z")]
    ELSE [valid |-> FALSE]

RangeErrorTime == JsText(<<JsString("Invalid time value")>>)

\* wordpressService.schedulePost throws at date.toISOString(), before any
\* request is made: the date is invalid
SchedulePostThrows(s) ==
    /\ s[1] = PQ
    /\ Running(s, "schedulePost")
    /\ ~NewDate(JobOf(s).data.scheduleDate).valid
    /\ MoveToFailed(s, RangeErrorTime)
    /\ UNCHANGED <<limiter, clock, posts, wpCalls, starts, order, response>>

\* variant: the scheduling call sends the date without the status 'future'
SchedulePostReturnsDateOnly(s) ==
    LET post == slot[s].local
    IN  /\ s[1] = PQ
        /\ Running(s, "schedulePost")
        /\ NewDate(JobOf(s).data.scheduleDate).valid
        /\ posts' = [posts EXCEPT ![post.id.num].date =
                                      NewDate(JobOf(s).data.scheduleDate).iso]
        /\ wpCalls' = Append(wpCalls, WpCall("schedulePost", s, post.id, Returned))
        /\ MoveToCompleted(s, PublishResult(post))
        /\ UNCHANGED <<limiter, clock, starts, order, response>>

\* wordpressService.schedulePost returns
SchedulePostReturns(s) ==
    LET post == slot[s].local
    IN  /\ s[1] = PQ
        /\ Running(s, "schedulePost")
        /\ NewDate(JobOf(s).data.scheduleDate).valid
        /\ posts' = [posts EXCEPT ![post.id.num].status = JsString("future"),
                                  ![post.id.num].date =
                                      NewDate(JobOf(s).data.scheduleDate).iso]
        /\ wpCalls' = Append(wpCalls, WpCall("schedulePost", s, post.id, Returned))
        /\ MoveToCompleted(s, PublishResult(post))
        /\ UNCHANGED <<limiter, clock, starts, order, response>>

\* variant: the task function swallows the error of schedulePost
SchedulePostFailsIgnored(s, message) ==
    /\ s[1] = PQ
    /\ Running(s, "schedulePost")
    /\ wpCalls' = Append(wpCalls, WpCall("schedulePost", s, slot[s].local.id,
                                         Rejected(message)))
    /\ MoveToCompleted(s, PublishResult(slot[s].local))
    /\ UNCHANGED <<limiter, clock, posts, starts, order, response>>

\* variant: the task function deletes the post when schedulePost rejects
SchedulePostFailsRollsBack(s, message) ==
    /\ s[1] = PQ
    /\ Running(s, "schedulePost")
    /\ NewDate(JobOf(s).data.scheduleDate).valid
    /\ wpCalls' = wpCalls \o
          <<WpCall("schedulePost", s, slot[s].local.id, Rejected(message)),
            WpCall("deletePost", s, slot[s].local.id, Returned)>>
    /\ posts' = [posts EXCEPT ![slot[s].local.id.num].status = JsString("trash")]
    /\ MoveToFailed(s, message)
    /\ UNCHANGED <<limiter, clock, starts, order, response>>

\* wordpressService.schedulePost rejects, and the task function with it
SchedulePostFails(s, message) ==
    /\ s[1] = PQ
    /\ Running(s, "schedulePost")
    /\ NewDate(JobOf(s).data.scheduleDate).valid
    /\ wpCalls' = Append(wpCalls, WpCall("schedulePost", s, slot[s].local.id,
                                         Rejected(message)))
    /\ MoveToFailed(s, message)
    /\ UNCHANGED <<limiter, clock, posts, starts, order, response>>

\* the WordPress site never answers the request the task function awaits:
\* the client is created without a timeout, so the await never settles
WordPressNeverAnswers(s) ==
    /\ s[1] = PQ
    /\ slot[s].job # 0
    /\ slot[s].pc \in {"createPost", "schedulePost"}
    /\ slot' = [slot EXCEPT ![s].pc = "pending"]
    /\ UNCHANGED <<jobs, wait, active, completed, failed, limiter, clock, posts,
                   wpCalls, starts, order, response>>

(***************************************************************************)
(* What the callers and the remote services send.                          *)
(***************************************************************************)
Seo == JsObject([title |-> JsString("AI in Healthcare"), description |-> JsString("D")])
Html == JsString("<p>post</p>")
Christmas == JsString("2024-12-25T10:00:00Z")

PublishBody(content, status, scheduleDate) ==
    [content |-> content, seo |-> Seo, status |-> status, scheduleDate |-> scheduleDate]

PublishBodies ==
    {PublishBody(Html, JsString("publish"), Undefined),
     PublishBody(Html, Undefined, Christmas),
     PublishBody(Undefined, JsString("draft"), Undefined)}

GenerateBody(topic, wordCount) ==
    [topic |-> topic, keywords |-> JsArray(<<JsString("machine learning")>>),
     wordCount |-> wordCount]

GenerateBodies ==
    {GenerateBody(JsString("AI in Healthcare"), JsNumber(1500)),
     GenerateBody(JsString(""), JsNumber(1500))}

AxiosErrors == {JsText(<<JsString("Request failed with status code "), JsNumber(500)>>)}
OpenAIErrors == {JsText(<<JsNumber(429), JsString(" Rate limit reached")>>)}

DraftAnswers == {Html}
SeoAnswers == {JsString(SeoJson)}
FaqAnswers == {JsString(FaqJson)}

(***************************************************************************)
(* Both queues, a few jobs each: too few starts for the limiter to act, so *)
(* the clock stands still here.                                            *)
(***************************************************************************)
Next ==
    \/ \E body \in PublishBodies : PostPublish(body, MaxPublishJobs)
    \/ \E body \in GenerateBodies : PostGenerate(body, MaxContentJobs)
    \/ \E s \in Slots : MoveToActive(s)
    \/ \E s \in Slots, c \in DraftAnswers : GenerateBlogPostReturns(s, c)
    \/ \E s \in Slots, c \in SeoAnswers : GenerateSEOMetadataReturns(s, c)
    \/ \E s \in Slots, c \in FaqAnswers : GenerateFAQSchemaReturns(s, c)
    \/ \E s \in Slots, m \in OpenAIErrors : LLMCallFails(s, m)
    \/ \E s \in Slots : CreatePostReturns(s)
    \/ \E s \in Slots, m \in AxiosErrors : CreatePostFails(s, m)
    \/ \E s \in Slots : SchedulePostReturns(s)
    \/ \E s \in Slots, m \in AxiosErrors : SchedulePostFails(s, m)

Spec == Init /\ [][Next]_vars

(***************************************************************************)
(* The content-generation queue alone, with enough jobs and time for the   *)
(* worker's limiter to act.  The text-generation service answers every     *)
(* call here: the limiter counts a start when the job is taken, whatever   *)
(* becomes of the job afterwards.                                          *)
(***************************************************************************)
ContentSlots == {s \in Slots : s[1] = CQ}

NextLimiter ==
    \/ PostGenerate(GenerateBody(JsString("AI in Healthcare"), JsNumber(1500)), LimiterJobs)
    \/ \E s \in ContentSlots : MoveToActive(s)
    \/ \E s \in ContentSlots : GenerateBlogPostReturns(s, Html)
    \/ \E s \in ContentSlots : GenerateSEOMetadataReturns(s, JsString(SeoJson))
    \/ \E s \in ContentSlots : GenerateFAQSchemaReturns(s, JsString(FaqJson))
    \/ Tick(LimiterTicks)

SpecLimiter == Init /\ [][NextLimiter]_vars

(***************************************************************************)
(* The content-generation queue with its limiter, where the worker takes   *)
(* the next job whenever it may, the text-generation service answers every *)
(* call and time passes.  The clock is stopped after ThrottleTicks ticks   *)
(* unless the limiter holds a job back.                                    *)
(***************************************************************************)
LLMAnswers ==
    \E s \in ContentSlots :
        \/ GenerateBlogPostReturns(s, Html)
        \/ GenerateSEOMetadataReturns(s, JsString(SeoJson))
        \/ GenerateFAQSchemaReturns(s, JsString(FaqJson))

TimePasses ==
    Tick(IF RateLimited(CQ)
         THEN (limiter.expires + TickMs - 1) \div TickMs
         ELSE ThrottleTicks)

NextThrottle ==
    \/ PostGenerate(GenerateBody(JsString("AI in Healthcare"), JsNumber(1500)), ThrottleJobs)
    \/ \E s \in ContentSlots : MoveToActive(s)
    \/ LLMAnswers
    \/ TimePasses

SpecThrottle ==
    /\ Init
    /\ [][NextThrottle]_vars
    /\ WF_vars(\E s \in ContentSlots : MoveToActive(s))
    /\ WF_vars(LLMAnswers)
    /\ WF_vars(TimePasses)

(***************************************************************************)
(* The publishing queue alone, with every kind of submission.              *)
(***************************************************************************)
PublishSlots == {s \in Slots : s[1] = PQ}

PublishBodiesAll ==
    {PublishBody(c, st, d) :
        c \in {Html, Undefined},
        st \in {JsString("draft"), JsString("publish"), JsString("private"), Undefined},
        d \in {Undefined, Christmas, JsString("tomorrow")}}

NextPublish ==
    \/ \E body \in PublishBodiesAll : PostPublish(body, PublishOnlyJobs)
    \/ \E s \in PublishSlots : MoveToActive(s)
    \/ \E s \in PublishSlots : CreatePostReturns(s)
    \/ \E s \in PublishSlots, m \in AxiosErrors : CreatePostFails(s, m)
    \/ \E s \in PublishSlots : SchedulePostReturns(s)
    \/ \E s \in PublishSlots, m \in AxiosErrors : SchedulePostFails(s, m)
    \/ \E s \in PublishSlots : SchedulePostThrows(s)

SpecPublish == Init /\ [][NextPublish]_vars

(***************************************************************************)
(* The publishing queue with a site that may leave a request unanswered.   *)
(* The worker takes the next job whenever a slot is free, and a request    *)
(* that is going to be answered is answered.                               *)
(***************************************************************************)
WordPressAnswers ==
    \E s \in PublishSlots, m \in AxiosErrors :
        \/ CreatePostReturns(s)
        \/ CreatePostFails(s, m)
        \/ SchedulePostReturns(s)
        \/ SchedulePostFails(s, m)

NextPublishLive ==
    \/ NextPublish
    \/ \E s \in PublishSlots : WordPressNeverAnswers(s)

SpecPublishLive ==
    /\ Init
    /\ [][NextPublishLive]_vars
    /\ WF_vars(\E s \in PublishSlots : MoveToActive(s))
    /\ WF_vars(WordPressAnswers)

(***************************************************************************)
(* The content-generation queue alone, with every kind of answer of the    *)
(* text-generation service.                                                *)
(***************************************************************************)
DraftAnswersAll == {Html, Null}
SeoAnswersAll == {JsString(SeoJson), Null, JsString(TruncatedJson), JsString(FaqJson)}
FaqAnswersAll == {JsString(FaqJson), Null, JsString(FaqArrayJson), JsString("null"),
                  JsString(TruncatedJson), JsString(FaqNoAnswerJson)}

NextGenerate ==
    \/ \E body \in GenerateBodies : PostGenerate(body, GenerateOnlyJobs)
    \/ \E s \in ContentSlots : MoveToActive(s)
    \/ \E s \in ContentSlots, c \in DraftAnswersAll : GenerateBlogPostReturns(s, c)
    \/ \E s \in ContentSlots, c \in SeoAnswersAll : GenerateSEOMetadataReturns(s, c)
    \/ \E s \in ContentSlots, c \in FaqAnswersAll : GenerateFAQSchemaReturns(s, c)
    \/ \E s \in ContentSlots, m \in OpenAIErrors : LLMCallFails(s, m)

SpecGenerate == Init /\ [][NextGenerate]_vars

(***************************************************************************)
(* The content-generation queue alone, with every kind of submission and a *)
(* text-generation service that answers every call.                        *)
(***************************************************************************)
GenerateBodiesAll ==
    {[topic |-> t, keywords |-> k, wordCount |-> w] :
        t \in {JsString("AI in Healthcare"), JsString(""), Undefined},
        k \in {JsArray(<<JsString("machine learning")>>), JsString("machine learning"),
               Undefined},
        w \in {JsNumber(1500), JsString("1500"), JsNumber(0), JsNumber(-5),
               JsString("abc"), Undefined}}

NextSubmit ==
    \/ \E body \in GenerateBodiesAll : PostGenerate(body, SubmitJobs)
    \/ \E s \in ContentSlots : MoveToActive(s)
    \/ \E s \in ContentSlots : GenerateBlogPostThrows(s)
    \/ \E s \in ContentSlots : GenerateBlogPostReturns(s, Html)
    \/ \E s \in ContentSlots : GenerateSEOMetadataReturns(s, JsString(SeoJson))
    \/ \E s \in ContentSlots : GenerateFAQSchemaReturns(s, JsString(FaqJson))

SpecSubmit == Init /\ [][NextSubmit]_vars

(***************************************************************************)
(* Both queues with the routes that query jobs, a few jobs each.           *)
(***************************************************************************)
QueryIds == 1..(QueryJobs + 1)

NextQuery ==
    \/ \E body \in PublishBodies : PostPublish(body, QueryJobs - Len(jobs[CQ]))
    \/ \E body \in GenerateBodies : PostGenerate(body, QueryJobs - Len(jobs[PQ]))
    \/ \E q \in Queues, id \in QueryIds : GetJob(q, id)
    \/ \E s \in Slots : MoveToActive(s)
    \/ \E s \in Slots, c \in DraftAnswers : GenerateBlogPostReturns(s, c)
    \/ \E s \in Slots, c \in SeoAnswers : GenerateSEOMetadataReturns(s, c)
    \/ \E s \in Slots, c \in FaqAnswers : GenerateFAQSchemaReturns(s, c)
    \/ \E s \in Slots, m \in OpenAIErrors : LLMCallFails(s, m)
    \/ \E s \in Slots : CreatePostReturns(s)
    \/ \E s \in Slots, m \in AxiosErrors : CreatePostFails(s, m)
    \/ \E s \in Slots : SchedulePostReturns(s)
    \/ \E s \in Slots, m \in AxiosErrors : SchedulePostFails(s, m)

SpecQuery == Init /\ [][NextQuery]_vars

(***************************************************************************)
(* Both queues, where each worker takes the next job whenever a slot of it *)
(* is free and every remote call a slot awaits is answered, with a result  *)
(* or with an error.                                                       *)
(***************************************************************************)
\* the remote call the slot awaits returns or rejects
RemoteCallEnds(s) ==
    \/ \E c \in DraftAnswers : GenerateBlogPostReturns(s, c)
    \/ \E c \in SeoAnswers : GenerateSEOMetadataReturns(s, c)
    \/ \E c \in FaqAnswers : GenerateFAQSchemaReturns(s, c)
    \/ \E m \in OpenAIErrors : LLMCallFails(s, m)
    \/ CreatePostReturns(s)
    \/ \E m \in AxiosErrors : CreatePostFails(s, m)
    \/ SchedulePostReturns(s)
    \/ \E m \in AxiosErrors : SchedulePostFails(s, m)

NextLive ==
    \/ \E body \in PublishBodies : PostPublish(body, LiveJobs - Len(jobs[CQ]))
    \/ \E body \in GenerateBodies : PostGenerate(body, LiveJobs - Len(jobs[PQ]))
    \/ \E s \in Slots : MoveToActive(s)
    \/ \E s \in Slots : RemoteCallEnds(s)

SpecLive ==
    /\ Init
    /\ [][NextLive]_vars
    /\ \A q \in Queues : WF_vars(\E s \in Slots : s[1] = q /\ MoveToActive(s))
    /\ \A s \in Slots : WF_vars(RemoteCallEnds(s))

(***************************************************************************)
(* Properties.                                                             *)
(***************************************************************************)
JobsIn(q, state) == {id \in JobIds(q) : getState(q, id) = state}

\* C1: in every reachable state at most 2 jobs of content-generation and at
\* most 1 job of publishing are active
C1_ActiveWithinConcurrency ==
    /\ Cardinality(JobsIn(CQ, "active")) <= 2
    /\ Cardinality(JobsIn(PQ, "active")) <= 1

\* both workers are full and a job of each queue has to wait
C1_Witness ==
    /\ Cardinality(JobsIn(CQ, "active")) = 2 /\ JobsIn(CQ, "waiting") # {}
    /\ Cardinality(JobsIn(PQ, "active")) = 1 /\ JobsIn(PQ, "waiting") # {}

\* C2: a job's state changes only waiting -> active, active -> completed,
\* active -> failed or active -> waiting, and a completed or failed job keeps
\* its state, its result and its failureReason whatever happens next
C2_Transitions ==
    [][\A q \in Queues : \A id \in JobIds(q) :
          LET before == getState(q, id)
              after == getState(q, id)'
          IN  /\ \/ after = before
                 \/ <<before, after>> \in {<<"waiting", "active">>, <<"active", "completed">>,
                                           <<"active", "failed">>, <<"active", "waiting">>}
              /\ before \in {"completed", "failed"} =>
                    /\ after = before
                    /\ jobs'[q][id].returnvalue = jobs[q][id].returnvalue
                    /\ jobs'[q][id].failedReason = jobs[q][id].failedReason]_vars

\* a queue holds a completed and a failed job while a later job of it runs
C2_Witness ==
    \E q \in Queues :
        /\ JobsIn(q, "completed") # {}
        /\ JobsIn(q, "failed") # {}
        /\ \E id \in JobsIn(q, "active") :
              \A done \in JobsIn(q, "completed") \cup JobsIn(q, "failed") : done < id

\* C3: a job is run by exactly one slot while it is active and by none
\* otherwise: two slots never run the same job
C3_OneSlotPerJob ==
    \A q \in Queues : \A id \in JobIds(q) :
        Cardinality({s \in Slots : s[1] = q /\ slot[s].job = id})
            = IF getState(q, id) = "active" THEN 1 ELSE 0

\* both slots of the content worker were free with job 1 next in line; one
\* took job 1 and the other went on to job 2
C3_Witness ==
    /\ slot[<<CQ, 1>>].job = 1
    /\ slot[<<CQ, 2>>].job = 2
    /\ jobs[CQ][1].attemptsMade = 1

\* C4: failed jobs are retried: a job ends failed only after it was sent back
\* to waiting and executed again at least once
C4_FailedJobsWereRetried ==
    \A q \in Queues : \A id \in JobsIn(q, "failed") : jobs[q][id].attemptsMade > 1

RecentStarts == {i \in DOMAIN starts : starts[i] + 60000 > clock}

\* the starts in the limiter's current window: the 60000 ms that began with
\* the first start counted after the previous window ended
WindowStarts ==
    {i \in DOMAIN starts : clock < limiter.expires /\ starts[i] + 60000 >= limiter.expires}

\* C5 as stated: no interval of 60000 ms, wherever it begins, holds more than
\* 10 starts of the content task function
C5_RollingWindow == Cardinality(RecentStarts) <= 10

\* C5 as amended: no window of the limiter holds more than 10 starts
C5_FixedWindow == Cardinality(WindowStarts) <= 10

\* the window is full: 10 starts in it, and the next job is held back
C5_Witness ==
    /\ Cardinality(WindowStarts) = 10
    /\ wait[CQ] # <<>>
    /\ \E s \in ContentSlots : slot[s].job = 0

FailedScheduleCalls ==
    {i \in DOMAIN wpCalls : wpCalls[i].op = "schedulePost" /\ ~wpCalls[i].outcome.ok}

\* C7 as stated: when the scheduling call fails after the post was created,
\* the job is failed and its failureReason contains the id of that post
C7_ReasonNamesPost ==
    \A i \in FailedScheduleCalls :
        /\ getState(PQ, wpCalls[i].job) = "failed"
        /\ Mentions(jobs[PQ][wpCalls[i].job].failedReason, wpCalls[i].arg)

\* C7 as amended: the job is failed, it has no result, and its failureReason
\* is the error message of the scheduling call, which does not contain the
\* id of the post
C7_ReasonIsCallError ==
    \A i \in FailedScheduleCalls :
        /\ getState(PQ, wpCalls[i].job) = "failed"
        /\ jobs[PQ][wpCalls[i].job].returnvalue = Null
        /\ jobs[PQ][wpCalls[i].job].failedReason = wpCalls[i].outcome.message
        /\ ~Mentions(jobs[PQ][wpCalls[i].job].failedReason, wpCalls[i].arg)

\* a job with a scheduleDate created its post and failed in the scheduling call
C7_Witness ==
    \E i \in FailedScheduleCalls :
        /\ Truthy(jobs[PQ][wpCalls[i].job].data.scheduleDate)
        /\ \E j \in 1..(i - 1) :
              /\ wpCalls[j].op = "createPost" /\ wpCalls[j].outcome.ok
              /\ wpCalls[j].job = wpCalls[i].job
        /\ posts[wpCalls[i].arg.num].job = wpCalls[i].job
        /\ getState(PQ, wpCalls[i].job) = "failed"

AllowedStatus == {JsString("draft"), JsString("publish")}

\* C9: no job of the publishing queue and no create-post call carries a
\* status other than 'draft' or 'publish'
C9_StatusValidated ==
    /\ \A id \in JobIds(PQ) : jobs[PQ][id].data.status \in AllowedStatus
    /\ \A i \in DOMAIN wpCalls :
          wpCalls[i].op = "createPost" => wpCalls[i].arg \in AllowedStatus

HasSeoFields(seo) ==
    /\ Get(seo, "title") # Undefined
    /\ Get(seo, "description") # Undefined
    /\ Get(seo, "tags") # Undefined

\* C10: the seo of every completed generation job has a title, a description
\* and tags
C10_SeoHasShape ==
    \A id \in JobsIn(CQ, "completed") : HasSeoFields(jobs[CQ][id].returnvalue.seo)

\* C11: a job's result is written only when its task function returns, from
\* the draft and the SEO metadata the same run of the task function produced
\* (a run starts with neither) and the FAQ data; a job that leaves active
\* because a step threw has no result
C11_NoPartialResult ==
    [][\A id \in JobIds(CQ) :
          LET before == jobs[CQ][id]
              after == jobs'[CQ][id]
          IN  /\ (getState(CQ, id) = "waiting" /\ getState(CQ, id)' = "active") =>
                    \E s \in ContentSlots :
                        slot'[s].job = id /\ slot'[s].local = Null
                                         /\ slot'[s].pc = "generateBlogPost"
              /\ after.returnvalue # before.returnvalue =>
                    /\ before.returnvalue = Null
                    /\ getState(CQ, id)' = "completed"
                    /\ \E s \in ContentSlots :
                          /\ slot[s].job = id /\ slot[s].pc = "generateFAQSchema"
                          /\ after.returnvalue.content = slot[s].local.content
                          /\ after.returnvalue.seo = slot[s].local.seo
                          /\ after.returnvalue.faqs.type = "array"
              /\ (getState(CQ, id) = "active" /\ getState(CQ, id)' \notin {"active", "completed"}) =>
                    after.returnvalue = Null]_vars

\* a job whose FAQ step threw after its draft and its SEO metadata had been
\* produced is failed without a result, next to a job that completed
C11_Witness ==
    /\ \E id \in JobsIn(CQ, "failed") :
          /\ jobs[CQ][id].failedReason = TypeErrorNull
          /\ jobs[CQ][id].returnvalue = Null
    /\ \E id \in JobsIn(CQ, "completed") : jobs[CQ][id].returnvalue.faqs.type = "array"

\* C12: the result of every completed generation job has a non-empty list of
\* seo tags, and faqs that are a list of pairs with a non-empty question and
\* a non-empty answer each
C12_TagsAndFaqs ==
    \A id \in JobsIn(CQ, "completed") :
        LET tags == Get(jobs[CQ][id].returnvalue.seo, "tags")
            faqs == jobs[CQ][id].returnvalue.faqs
        IN  /\ tags.type = "array" /\ tags.items # <<>>
            /\ faqs.type = "array"
            /\ \A i \in DOMAIN faqs.items :
                  /\ Truthy(Get(faqs.items[i], "question"))
                  /\ Truthy(Get(faqs.items[i], "answer"))

\* C13: a job whose remote call never responds does not stay active for
\* ever: every active job of the publishing queue eventually leaves active
C13_ActiveJobsLeave ==
    \A id \in 1..PublishOnlyJobs :
        (getState(PQ, id) = "active") ~> (getState(PQ, id) # "active")

\* a generation payload as the interface describes it: a non-empty topic, a
\* keywords sequence and a positive integer wordCount
ValidGenerateData(data) ==
    /\ data.topic.type = "string" /\ data.topic.str # ""
    /\ data.keywords.type = "array"
    /\ data.wordCount.type = "number" /\ ~data.wordCount.nan /\ data.wordCount.num > 0

\* C14: a generation submission with an invalid payload is rejected before
\* enqueue: every job on the content-generation queue carries a non-empty
\* topic, a keywords sequence and a positive integer wordCount, and so does
\* every job the text-generation service was called for
C14_PayloadValidated ==
    /\ \A id \in JobIds(CQ) : ValidGenerateData(jobs[CQ][id].data)
    /\ \A s \in ContentSlots :
          slot[s].pc \in {"generateSEOMetadata", "generateFAQSchema"} =>
              ValidGenerateData(JobOf(s).data)

\* the calls of one kind the task function made to WordPress for a job
CallsOf(id, op) == {i \in DOMAIN wpCalls : wpCalls[i].job = id /\ wpCalls[i].op = op}

\* C15: a completed publish job that had no scheduleDate made exactly one
\* create-post call and no scheduling call, and its result holds the id and
\* the URL of the post that call created and a publishedAt timestamp
C15_PublishWithoutSchedule ==
    \A id \in JobsIn(PQ, "completed") :
        ~Truthy(jobs[PQ][id].data.scheduleDate) =>
            /\ Cardinality(CallsOf(id, "createPost")) = 1
            /\ CallsOf(id, "schedulePost") = {}
            /\ \E n \in DOMAIN posts :
                  /\ posts[n].job = id
                  /\ jobs[PQ][id].returnvalue.wordpressId = JsNumber(n)
                  /\ jobs[PQ][id].returnvalue.wordpressUrl = CreatedPost(n).link
            /\ jobs[PQ][id].returnvalue.publishedAt.type = "text"

\* a job with status 'publish' and no scheduleDate completed after another
\* job had created a post of its own
C15_Witness ==
    \E id \in JobsIn(PQ, "completed") :
        /\ ~Truthy(jobs[PQ][id].data.scheduleDate)
        /\ jobs[PQ][id].data.status = JsString("publish")
        /\ jobs[PQ][id].returnvalue.wordpressId = JsNumber(2)
        /\ Cardinality(CallsOf(id, "createPost")) = 1

\* the limiter's budget is used up: 10 starts were counted in the window
\* that is still running
BudgetExhausted == limiter.count >= 10 /\ clock < limiter.expires

\* C16: while the budget of the generation queue is exhausted, a waiting job
\* stays waiting with its attempts unchanged and without a failureReason,
\* and no job waits for ever: whenever jobs wait, the wait list is later
\* empty again, which a job leaves only by being started
C16_ThrottledJobsWait ==
    /\ [][\A id \in JobIds(CQ) :
            (BudgetExhausted /\ getState(CQ, id) = "waiting") =>
                /\ getState(CQ, id)' = "waiting"
                /\ jobs'[CQ][id].attemptsMade = jobs[CQ][id].attemptsMade
                /\ jobs'[CQ][id].failedReason = Null]_vars
    /\ (wait[CQ] # <<>>) ~> (wait[CQ] = <<>>)

\* ten jobs were started, time has passed, both slots are free again and
\* the eleventh job is still held back, unstarted and without a failureReason
C16_Witness ==
    /\ BudgetExhausted
    /\ clock > 0
    /\ \A s \in ContentSlots : slot[s].job = 0
    /\ \E id \in JobsIn(CQ, "waiting") :
          /\ id > 10
          /\ jobs[CQ][id].attemptsMade = 0
          /\ jobs[CQ][id].failedReason = Null

\* the response is the answer of a job query about job id of queue q
AnswersQuery(r, q, id) == r.status = 200 /\ r.route = JobRoute(q) /\ r.jobId = id

Terminal(q, id) == getState(q, id) \in {"completed", "failed"}

\* C17: a job query changes no job, and for a completed or failed job it
\* returns the same state, result and failureReason every time, whatever
\* the queues and the workers do in between
C17_QueryStable ==
    [][/\ (response' # response /\ response'.route \in {JobRoute(CQ), JobRoute(PQ)}) =>
              UNCHANGED <<jobs, wait, active, completed, failed, slot, posts, wpCalls>>
       /\ \A q \in Queues : \A id \in JobIds(q) :
              /\ Terminal(q, id) => JobResponse(q, id)' = JobResponse(q, id)
              /\ (AnswersQuery(response, q, id) /\ response.state \in {"completed", "failed"}
                    /\ AnswersQuery(response', q, id)) => response' = response
              /\ (response' # response /\ AnswersQuery(response', q, id)) =>
                    /\ response'.state = getState(q, id)'
                    /\ response'.result = jobs'[q][id].returnvalue
                    /\ response'.failedReason = jobs'[q][id].failedReason]_vars

\* a failed job of the publishing queue was queried, its answer is the last
\* response, and the worker has since finished another job of that queue
C17_Witness ==
    /\ AnswersQuery(response, PQ, 1)
    /\ response.state = "failed"
    /\ response.failedReason \in AxiosErrors
    /\ getState(PQ, 2) = "completed"

SubmitRoute(q) == IF q = CQ THEN "content" ELSE "publish"

\* the response is the answer of an accepted submission to queue q
AnswersSubmit(r, q) == r.status = 200 /\ r.route = SubmitRoute(q)

\* C18: an accepted submission adds exactly one job, in state waiting, to
\* its queue and answers with that job's id; it touches no other job and
\* runs nothing, whatever the worker's slots and the limiter are doing, and
\* jobs are only ever added by an accepted submission
C18_EnqueueReturnsAtOnce ==
    [][\A q \in Queues :
          /\ (response' # response /\ AnswersSubmit(response', q)) =>
                /\ Len(jobs'[q]) = Len(jobs[q]) + 1
                /\ \E id \in {Len(jobs[q]) + 1} :
                      /\ response'.jobId = id
                      /\ getState(q, id)' = "waiting"
                      /\ jobs'[q][id].attemptsMade = 0
                /\ SubSeq(jobs'[q], 1, Len(jobs[q])) = jobs[q]
                /\ \A o \in Queues \ {q} : jobs'[o] = jobs[o] /\ wait'[o] = wait[o]
                /\ UNCHANGED <<active, completed, failed, slot, limiter, posts, wpCalls>>
          /\ Len(jobs'[q]) # Len(jobs[q]) =>
                response' # response /\ AnswersSubmit(response', q)]_vars

\* the second job of the publishing queue was submitted and queried while
\* the worker's only slot was busy with the first: it is reported waiting
C18_Witness ==
    /\ slot[<<PQ, 1>>].job = 1
    /\ AnswersQuery(response, PQ, 2)
    /\ response.state = "waiting"
    /\ getState(PQ, 2) = "waiting"
    /\ jobs[PQ][2].attemptsMade = 0

\* C19: a job's failed attempt is followed by a retry after a backoff delay:
\* the step in which the first attempt of a job fails sets the job aside as
\* delayed, to be claimed again once min(baseDelay * 2^(n-1), cap) has passed
C19_FailedAttemptIsDelayed ==
    [][\A q \in Queues : \A id \in JobIds(q) :
          (/\ getState(q, id) = "active"
           /\ jobs[q][id].attemptsMade = 1
           /\ jobs'[q][id].failedReason # jobs[q][id].failedReason) =>
              getState(q, id)' = "delayed"]_vars

FromJobRoute(r, q) == r.status # 0 /\ r.route = JobRoute(q)

C22_JobsFinish ==
    \A q \in Queues : \A id \in 1..LiveJobs :
        (id \in JobIds(q)) ~> Terminal(q, id)

\* every job that was added has finished: two jobs of the publishing queue,
\* one completed and one failed, and a completed job of the other queue
C22_Witness ==
    /\ Len(jobs[PQ]) = 2 /\ Len(jobs[CQ]) = 1
    /\ \A q \in Queues : wait[q] = <<>> /\ active[q] = {}
    /\ completed[PQ] # {} /\ failed[PQ] # {}
    /\ completed[CQ] = {1}

\* the posts of the WordPress site that a job's create-post call created
PostsOf(id) == {n \in DOMAIN posts : posts[n].job = id}

C24_NoRollback ==
    /\ Len(posts) = Cardinality({i \in DOMAIN wpCalls :
                                    wpCalls[i].op = "createPost" /\ wpCalls[i].outcome.ok})
    /\ \A i \in DOMAIN wpCalls : wpCalls[i].op \in {"createPost", "schedulePost"}
    /\ \A id \in JobsIn(PQ, "failed") : \A n \in PostsOf(id) :
          /\ \E i \in CallsOf(id, "createPost") : posts[n].status = wpCalls[i].arg
          /\ posts[n].date = Undefined

\* job 1 asked for status 'publish' and a schedule date; its post was
\* created, its scheduling call was rejected, and the post is still there,
\* published and unscheduled, while the worker has gone on to the next job
C24_Witness ==
    /\ \E i \in FailedScheduleCalls : wpCalls[i].job = 1
    /\ getState(PQ, 1) = "failed"
    /\ posts[1].job = 1
    /\ posts[1].status = JsString("publish")
    /\ posts[1].date = Undefined
    /\ getState(PQ, 2) = "active"

\* C25: a completed publish job that had a scheduleDate made one
\* create-post call and then one scheduling call, for the post the first
\* created, and left that post with status 'future' and the given date,
\* whatever status was asked for; no scheduling call is made for a job
\* without a successful create-post call before it
C25_CreateThenSchedule ==
    /\ \A id \in JobsIn(PQ, "completed") :
          Truthy(jobs[PQ][id].data.scheduleDate) =>
              /\ Cardinality(CallsOf(id, "createPost")) = 1
              /\ Cardinality(CallsOf(id, "schedulePost")) = 1
              /\ \A n \in PostsOf(id) :
                    /\ posts[n].status = JsString("future")
                    /\ posts[n].date = NewDate(jobs[PQ][id].data.scheduleDate).iso
    /\ \A j \in DOMAIN wpCalls :
          wpCalls[j].op = "schedulePost" =>
              \E i \in 1..(j - 1) :
                  /\ wpCalls[i].op = "createPost" /\ wpCalls[i].outcome.ok
                  /\ wpCalls[i].job = wpCalls[j].job
                  /\ posts[wpCalls[j].arg.num].job = wpCalls[j].job
    /\ \A i \in DOMAIN wpCalls :
          (wpCalls[i].op = "createPost" /\ ~wpCalls[i].outcome.ok) =>
              CallsOf(wpCalls[i].job, "schedulePost") = {}

\* a job that asked for status 'publish' on 25 December has completed: its
\* post is scheduled for that date, after the create-post call of an earlier
\* job had failed without a scheduling call
C25_Witness ==
    /\ \E i \in CallsOf(1, "createPost") : ~wpCalls[i].outcome.ok
    /\ getState(PQ, 2) = "completed"
    /\ jobs[PQ][2].data.status = JsString("publish")
    /\ jobs[PQ][2].data.scheduleDate = Christmas
    /\ posts[1].job = 2
    /\ posts[1].status = JsString("future")
    /\ posts[1].date = JsString("2024-12-25T10:00:00.000Z")

\* C26: in every run of the generation task the SEO call is issued only in
\* the step in which the draft call returns and the FAQ call only after
\* that, both with the draft that call returned in this run; when the draft
\* call fails the run ends and neither is issued
C26_DraftFirst ==
    [][\A s \in ContentSlots :
          /\ (slot'[s].pc = "generateSEOMetadata" /\ slot[s].pc # "generateSEOMetadata") =>
                /\ slot[s].pc = "generateBlogPost"
                /\ slot'[s].job = slot[s].job
                /\ LLMCallArgument(s)'.type = "string"
          /\ (slot'[s].pc = "generateFAQSchema" /\ slot[s].pc # "generateFAQSchema") =>
                /\ slot[s].pc = "generateSEOMetadata"
                /\ slot'[s].job = slot[s].job
                /\ LLMCallArgument(s)' = LLMCallArgument(s)
          /\ (slot[s].pc = "generateBlogPost" /\ slot'[s].pc # "generateBlogPost") =>
                \/ slot'[s].pc = "generateSEOMetadata"
                \/ /\ slot'[s].pc = "idle"
                   /\ \E id \in {slot[s].job} : getState(CQ, id)' = "failed"]_vars

\* one slot awaits the FAQ call of job 2 with that job's draft while the
\* draft call of job 1 has failed, which ended job 1
C26_Witness ==
    /\ \E s \in ContentSlots :
          /\ slot[s].job = 2 /\ slot[s].pc = "generateFAQSchema"
          /\ LLMCallArgument(s) = Html
    /\ getState(CQ, 1) = "failed"
    /\ jobs[CQ][1].failedReason \in OpenAIErrors

\* the data the routes hand to Queue.add for the id-th job of the queue
EnqueuedData(q, id) ==
    IF q = CQ THEN {GenerateData(b, id) : b \in GenerateBodies}
    ELSE {PublishData(b) : b \in PublishBodies}

\* C27: no step removes a job from its queue or changes its data, so under
\* its id and on its queue a job keeps the data it was enqueued with while
\* it is taken, run, finished and queried; a slot only runs a job of its own
\* worker's queue, with that queue's task function, and what a finished job
\* returned has the shape its queue's task function returns
C27_JobFrame ==
    [][/\ \A q \in Queues : \A id \in JobIds(q) :
              /\ id \in DOMAIN jobs'[q]
              /\ jobs'[q][id].data = jobs[q][id].data
              /\ jobs[q][id].data \in EnqueuedData(q, id)
       /\ \A s \in Slots : slot'[s].job # 0 =>
              /\ slot'[s].job \in active'[s[1]]
              /\ slot'[s].pc \in TaskSteps(s[1])
       /\ \A id \in completed'[CQ] :
              /\ jobs'[CQ][id].returnvalue.topic = jobs'[CQ][id].data.topic
              /\ jobs'[CQ][id].returnvalue.contentId = jobs'[CQ][id].data.contentId
       /\ \A id \in completed'[PQ] :
              /\ jobs'[PQ][id].returnvalue.wordpressId.type = "number"
              /\ PostsOf(id)' # {}]_vars

\* job 1 of each queue was taken, run to completion by its own task function
\* and queried: the content job returned its topic, the publish job its
\* post, and both still hold the data they were enqueued with
C27_Witness ==
    /\ 1 \in completed[CQ] /\ 1 \in completed[PQ]
    /\ jobs[CQ][1].data = GenerateData(GenerateBody(JsString("AI in Healthcare"), JsNumber(1500)), 1)
    /\ jobs[CQ][1].returnvalue.topic = JsString("AI in Healthcare")
    /\ jobs[PQ][1].data = PublishData(PublishBody(Html, Undefined, Christmas))
    /\ jobs[PQ][1].returnvalue.wordpressId = JsNumber(1)
    /\ AnswersQuery(response, PQ, 1)

====
